---- MODULE Spec2Model ----
(***************************************************************************)
(* finch.js: a WebHID driver for the Finch robot.                          *)
(*                                                                         *)
(* The module models finch.js as it runs on the JavaScript event loop:     *)
(* run() and the public operations are coroutines that suspend at each     *)
(* `await`; a resumed coroutine is a job of the microtask queue mq, whose  *)
(* head is the job that is executing.  Host events (the user's click, the  *)
(* settling of requestDevice/open/close, an 'inputreport' dispatch) are    *)
(* tasks of the event loop and run only when the microtask queue is empty. *)
(***************************************************************************)
EXTENDS Integers, Sequences, FiniteSets, TLC

\* ------------------------------------------------------------------ bounds
MaxRuns == 2          \* run() invocations (clicks) in one page
MaxOps == 2           \* operations the tasks call, in total
MaxReportByte == 1    \* byte 0 of a report ranges over 0..MaxReportByte

\* ------------------------------------------------------- program constants
FrameLen == 8         \* new Uint8Array(8)

Runs == 1..MaxRuns
ReportBytes == 0..MaxReportByte

\* ------------------------------------------------------------- frame codec
\* String.prototype.charCodeAt(0) of the command identifiers the library uses.
CharCode(c) ==
  CASE c = "z" -> 122 [] c = "M" -> 77 [] c = "B" -> 66 [] c = "O" -> 79
    [] c = "X" -> 88 [] c = "I" -> 73 [] c = "A" -> 65 [] c = "T" -> 84
    [] c = "L" -> 76 [] c = "R" -> 82

\* A store into a Uint8Array element: the value modulo 2^8.
ToUint8(v) == v % 256

\* msg[i] of a JavaScript array (0-based); undefined past the end, which a
\* Uint8Array store converts to 0.
MsgAt(msg, i) == IF i < Len(msg) THEN ToUint8(msg[i + 1]) ELSE 0

\* arr[i] = v on a Uint8Array: a store outside 0..length-1 is ignored.
Store(arr, i, v) == IF i \in DOMAIN arr THEN [arr EXCEPT ![i] = v] ELSE arr

\* The copy loop with the store one element early: arr[i] = msg[i].
RECURSIVE CopyLoopEarly(_, _, _)
CopyLoopEarly(arr, msg, i) ==
  IF i < Len(msg) + 1
    THEN CopyLoopEarly(Store(arr, i, MsgAt(msg, i)), msg, i + 1)
    ELSE arr

\* for (i = 0; i < msg.length + 1; i++) arr[i+1] = msg[i];
RECURSIVE CopyLoop(_, _, _)
CopyLoop(arr, msg, i) ==
  IF i < Len(msg) + 1
    THEN CopyLoop(Store(arr, i + 1, MsgAt(msg, i)), msg, i + 1)
    ELSE arr

\* for (; i < arr.length; i++) arr[i] = 0;   (i is msg.length + 1 on entry)
RECURSIVE ZeroLoop(_, _)
ZeroLoop(arr, i) ==
  IF i < FrameLen THEN ZeroLoop(Store(arr, i, 0), i + 1) ELSE arr

\* The array send(cmd, msg) hands to sendReport.
Frame(cmd, msg) ==
  LET arr0 == [i \in 0..(FrameLen - 1) |-> 0]
      arr1 == Store(arr0, 0, CharCode(cmd))
      arr2 == CopyLoop(arr1, msg, 0)
  IN  ZeroLoop(arr2, Len(msg) + 1)


\* ------------------------------------------------------- command facade
\* The public operations a task can call, and the frame each one sends.
Actuators == {"wheels", "led", "halt"}
Sensors == {"get_obstacles", "get_acceleration", "get_temperature", "get_light"}
OpNames == Actuators \cup Sensors \cup {"wait"}

wheelsPacked(left, right) == Frame("M", <<left, right>>)
wheels(left, right) == Frame("M", <<0, left, 0, right>>)
led(r, g, b) == Frame("O", <<r, g, b>>)
halt == Frame("X", <<0>>)

\* a & b and a >> n on non-negative 32-bit integers.
RECURSIVE BitAnd(_, _)
BitAnd(a, b) ==
  IF a = 0 \/ b = 0
    THEN 0
    ELSE (a % 2) * (b % 2) + 2 * BitAnd(a \div 2, b \div 2)
RECURSIVE Shr(_, _)
Shr(a, n) == IF n = 0 THEN a ELSE Shr(a \div 2, n - 1)

\* buzz(sec, freq), the duration given as its millisecond count ms = sec*1000
\* (a whole number of milliseconds). send() is called with a third argument,
\* freq && 0xFF, that it has no parameter for.
buzzSwapped(ms, freq) ==
  Frame("B", <<BitAnd(ms, 255), Shr(BitAnd(ms, 65280), 8),
               Shr(BitAnd(freq, 65280), 8)>>)
buzz(ms, freq) ==
  Frame("B", <<Shr(BitAnd(ms, 65280), 8), BitAnd(ms, 255),
               Shr(BitAnd(freq, 65280), 8)>>)
get_obstacles == Frame("I", <<>>)
get_acceleration == Frame("A", <<>>)
get_temperature == Frame("T", <<>>)
get_light == Frame("L", <<>>)
Identify == Frame("z", <<>>)
IdleFrame == Frame("R", <<0>>)

\* Argument values a task of the session model passes to wheels() and led().
ArgSamples == {255}

\* The calls a task can make: the operation and its arguments.
Calls ==
  [op : {"wheels"}, args : ArgSamples \X ArgSamples]
    \cup [op : {"led"}, args : ArgSamples \X ArgSamples \X ArgSamples]
    \cup [op : {"halt", "wait"} \cup Sensors, args : {<<>>}]

CallFrame(c) ==
  CASE c.op = "wheels" -> wheels(c.args[1], c.args[2])
    [] c.op = "led" -> led(c.args[1], c.args[2], c.args[3])
    [] c.op = "halt" -> halt
    [] c.op = "get_obstacles" -> get_obstacles
    [] c.op = "get_acceleration" -> get_acceleration
    [] c.op = "get_temperature" -> get_temperature
    [] c.op = "get_light" -> get_light

\* The robot answers a query frame with one report and nothing else.
QueryCodes == {CharCode(c) : c \in {"z", "I", "A", "T", "L"}}

\* ------------------------------------------------------------------ state
VARIABLES
  hasDevice,   \* window.device holds a device handle
  opened,      \* device.opened
  cmdId,       \* window.cmdId; -1 while unset
  pc,          \* per run(): the await it is suspended at
  got,         \* per run(): the report its recv() resolved with; -1 if none
  tpc,         \* per run(): its task: "none", "active", "returned", "threw"
  nOps,        \* per run(): operations its task has called
  ops,         \* per run() and call: the operation's coroutine ("free",
               \* "sent", "listening", "resolved", "waiting", "done")
  mq,          \* microtask queue; its head is the job that is executing
  listeners,   \* one-shot 'inputreport' listeners, in registration order
  outbox,      \* frames handed to sendReport whose send is not complete
  inbox,       \* reports the host has read and not yet dispatched
  log,         \* per run(): history of the steps it has taken
  reqCalls,    \* history: requestDevice calls made
  closeCalled, \* history: close() was called and open() has not completed since
  call,        \* the library function called directly, with its arguments
  ret,         \* the state of that call's promise, with its value if settled
  now,         \* milliseconds since the page loaded
  timer        \* when the pending setTimeout of wait() is due; -1 if none

vars == <<hasDevice, opened, cmdId, pc, got, tpc, nOps, ops, mq, listeners,
          outbox, inbox, log, reqCalls, closeCalled, call, ret, now, timer>>

\* The variables of a direct call of a library function.
direct == <<call, ret, now, timer>>

RunJob(r) == <<"run", r, 0>>
TaskJob(r) == <<"task", r, 0>>
OpJob(r, k) == <<"op", r, k>>

FreeOp == [st |-> "free", awaited |-> FALSE, data |-> -1]
DoneOp == [st |-> "done", awaited |-> FALSE, data |-> -1]

Init ==
  /\ hasDevice = FALSE
  /\ opened = FALSE
  /\ cmdId = -1
  /\ pc = [r \in Runs |-> "idle"]
  /\ got = [r \in Runs |-> -1]
  /\ tpc = [r \in Runs |-> "none"]
  /\ nOps = [r \in Runs |-> 0]
  /\ ops = [r \in Runs |-> [k \in 1..MaxOps |-> FreeOp]]
  /\ mq = <<>>
  /\ listeners = <<>>
  /\ outbox = <<>>
  /\ inbox = <<>>
  /\ log = [r \in Runs |-> <<>>]
  /\ reqCalls = 0
  /\ closeCalled = FALSE
  /\ call = [fn |-> "none"]
  /\ ret = [st |-> "none"]
  /\ now = 0
  /\ timer = -1


Range(q) == {q[i] : i \in DOMAIN q}

\* ------------------------------------------------------ private API, host
\* window.device.sendReport(0, arr) as send() calls it, without awaiting it:
\* an open device takes the frame; a closed one rejects the call and takes
\* nothing (the rejection is not observed by send()).
sendReport(arr, src) ==
  IF opened THEN Append(outbox, [data |-> arr, src |-> src]) ELSE outbox

\* recv(): registers a one-shot 'inputreport' listener for job j.
recv(j) == listeners' = Append(listeners, j)

\* ------------------------------------------------------------------ run()
\* await send('z', []): the frame is handed over at once, the continuation
\* is queued behind the jobs q.
Handshake(r, q) ==
  /\ outbox' = sendReport(Identify, RunJob(r))
  /\ pc' = [pc EXCEPT ![r] = "hsSent"]
  /\ mq' = Append(q, RunJob(r))
  /\ log' = [log EXCEPT ![r] = Append(@, "z")]

\* if (!device.opened) await device.open(); then the handshake.
Connect(r, q) ==
  IF ~opened
    THEN /\ pc' = [pc EXCEPT ![r] = "opening"]
         /\ mq' = q
         /\ UNCHANGED <<outbox, log>>
    ELSE Handshake(r, q)

\* The click handler calls run(prog): the body runs to its first await.
StartRun(r) ==
  /\ mq = <<>>
  /\ pc[r] = "idle"
  /\ IF ~hasDevice
       THEN /\ reqCalls' = reqCalls + 1
            /\ pc' = [pc EXCEPT ![r] = "reqDev"]
            /\ UNCHANGED <<mq, outbox, log>>
       ELSE /\ Connect(r, <<>>)
            /\ UNCHANGED reqCalls
  /\ UNCHANGED <<hasDevice, opened, cmdId, got, tpc, nOps, ops, listeners,
                 inbox, closeCalled>>
  /\ UNCHANGED direct

\* What run(prog) hands back to its caller: its body calls the async function
\* and drops the promise, and there is no return statement, so the call has
\* returned undefined before the connection is attempted, whatever becomes of
\* the session.
runResult(r) == IF pc[r] = "idle" THEN "none" ELSE "undefined"

\* requestDevice settles with the granted devices; window.device = devices[0]
\* (undefined when the user granted none).
RequestDeviceDone(r, granted) ==
  /\ mq = <<>>
  /\ pc[r] = "reqDev"
  /\ hasDevice' = granted
  /\ mq' = <<RunJob(r)>>
  /\ UNCHANGED <<opened, cmdId, pc, got, tpc, nOps, ops, listeners, outbox,
                 inbox, log, reqCalls, closeCalled>>
  /\ UNCHANGED direct

\* run() resumes after requestDevice: reading device.opened of an undefined
\* device throws, which rejects run()'s inner promise.
RunAfterRequest(r) ==
  /\ mq # <<>> /\ Head(mq) = RunJob(r)
  /\ pc[r] = "reqDev"
  /\ IF ~hasDevice
       THEN /\ pc' = [pc EXCEPT ![r] = "rejected"]
            /\ mq' = Tail(mq)
            /\ UNCHANGED <<outbox, log>>
       ELSE Connect(r, Tail(mq))
  /\ UNCHANGED <<hasDevice, opened, cmdId, got, tpc, nOps, ops, listeners,
                 inbox, reqCalls, closeCalled>>
  /\ UNCHANGED direct

\* device.open() resolves.
OpenDone(r) ==
  /\ mq = <<>>
  /\ pc[r] = "opening"
  /\ opened' = TRUE
  /\ closeCalled' = FALSE
  /\ mq' = <<RunJob(r)>>
  /\ log' = [log EXCEPT ![r] = Append(@, "open")]
  /\ UNCHANGED <<hasDevice, cmdId, pc, got, tpc, nOps, ops, listeners, outbox,
                 inbox, reqCalls>>
  /\ UNCHANGED direct

\* device.open() rejects: the await throws and run()'s inner promise rejects.
OpenFail(r) ==
  /\ mq = <<>>
  /\ pc[r] = "opening"
  /\ pc' = [pc EXCEPT ![r] = "rejected"]
  /\ UNCHANGED <<hasDevice, opened, cmdId, got, tpc, nOps, ops, mq, listeners,
                 outbox, inbox, log, reqCalls, closeCalled>>
  /\ UNCHANGED direct

\* run() resumes after open(): the handshake frame.
RunAfterOpen(r) ==
  /\ mq # <<>> /\ Head(mq) = RunJob(r)
  /\ pc[r] = "opening"
  /\ Handshake(r, Tail(mq))
  /\ UNCHANGED <<hasDevice, opened, cmdId, got, tpc, nOps, ops, listeners,
                 inbox, reqCalls, closeCalled>>
  /\ UNCHANGED direct

\* run() going on to the task without awaiting recv().
RunRecvSkip(r) ==
  /\ mq # <<>> /\ Head(mq) = RunJob(r)
  /\ pc[r] = "hsSent"
  /\ tpc' = [tpc EXCEPT ![r] = "active"]
  /\ pc' = [pc EXCEPT ![r] = "task"]
  /\ mq' = <<TaskJob(r)>> \o Tail(mq)
  /\ log' = [log EXCEPT ![r] = Append(@, "task")]
  /\ UNCHANGED <<hasDevice, opened, cmdId, got, nOps, ops, listeners, outbox,
                 inbox, reqCalls, closeCalled>>
  /\ UNCHANGED direct

\* run() resumes after `await send('z', [])`: await recv().
RunRecv(r) ==
  /\ mq # <<>> /\ Head(mq) = RunJob(r)
  /\ pc[r] = "hsSent"
  /\ recv(RunJob(r))
  /\ pc' = [pc EXCEPT ![r] = "hsRecv"]
  /\ mq' = Tail(mq)
  /\ UNCHANGED <<hasDevice, opened, cmdId, got, tpc, nOps, ops, outbox, inbox,
                 log, reqCalls, closeCalled>>
  /\ UNCHANGED direct

\* run() resumes with the report: window.cmdId = data[0]; await prog().
\* prog starts at once, inside this job.
RunTask(r) ==
  /\ mq # <<>> /\ Head(mq) = RunJob(r)
  /\ pc[r] = "hsRecv"
  /\ cmdId' = got[r]
  /\ tpc' = [tpc EXCEPT ![r] = "active"]
  /\ pc' = [pc EXCEPT ![r] = "task"]
  /\ mq' = <<TaskJob(r)>> \o Tail(mq)
  /\ log' = [log EXCEPT ![r] = Append(@, "task")]
  /\ UNCHANGED <<hasDevice, opened, got, nOps, ops, listeners, outbox, inbox,
                 reqCalls, closeCalled>>
  /\ UNCHANGED direct

\* run() resumes after `await prog()`: a rejected task promise throws out of
\* run(); otherwise await send('R', [0]).
RunIdle(r) ==
  /\ mq # <<>> /\ Head(mq) = RunJob(r)
  /\ pc[r] = "task"
  /\ IF tpc[r] = "threw"
       THEN /\ pc' = [pc EXCEPT ![r] = "rejected"]
            /\ mq' = Tail(mq)
            /\ UNCHANGED <<outbox, log>>
       ELSE /\ outbox' = sendReport(IdleFrame, RunJob(r))
            /\ pc' = [pc EXCEPT ![r] = "idleSent"]
            /\ mq' = Append(Tail(mq), RunJob(r))
            /\ log' = [log EXCEPT ![r] = Append(@, "R")]
  /\ UNCHANGED <<hasDevice, opened, cmdId, got, tpc, nOps, ops, listeners,
                 inbox, reqCalls, closeCalled>>
  /\ UNCHANGED direct

\* run() resumes after `await send('R', [0])`: await device.close().
RunClose(r) ==
  /\ mq # <<>> /\ Head(mq) = RunJob(r)
  /\ pc[r] = "idleSent"
  /\ pc' = [pc EXCEPT ![r] = "closing"]
  /\ mq' = Tail(mq)
  /\ closeCalled' = TRUE
  /\ log' = [log EXCEPT ![r] = Append(@, "close")]
  /\ UNCHANGED <<hasDevice, opened, cmdId, got, tpc, nOps, ops, listeners,
                 outbox, inbox, reqCalls>>
  /\ UNCHANGED direct

\* device.close() resolves: the connection is gone, and with it the reports
\* the host had read and not dispatched.
CloseDone(r) ==
  /\ mq = <<>>
  /\ pc[r] = "closing"
  /\ opened' = FALSE
  /\ inbox' = <<>>
  /\ pc' = [pc EXCEPT ![r] = "done"]
  /\ UNCHANGED <<hasDevice, cmdId, got, tpc, nOps, ops, mq, listeners, outbox,
                 log, reqCalls, closeCalled>>
  /\ UNCHANGED direct


\* ------------------------------------------------------------------ tasks
\* Operations called so far by the tasks of the runs S.
RECURSIVE OpsCalled(_)
OpsCalled(S) ==
  IF S = {} THEN 0
  ELSE LET r == CHOOSE x \in S : TRUE IN nOps[r] + OpsCalled(S \ {r})

\* The task calls operation c, awaiting it (aw) or not.  The operation's
\* send() hands its frame over inside the call.  A sensor read is an async
\* function that goes on after `await send(...)`; an actuator returns
\* send()'s promise, which is already resolved.
TaskCall(r, c, aw) ==
  /\ mq # <<>> /\ Head(mq) = TaskJob(r)
  /\ OpsCalled(Runs) < MaxOps
  /\ c.op # "wait"
  /\ LET k == nOps[r] + 1
         rest == IF aw THEN Tail(mq) ELSE mq
     IN  /\ nOps' = [nOps EXCEPT ![r] = k]
         /\ outbox' = sendReport(CallFrame(c), OpJob(r, k))
         /\ log' = [log EXCEPT ![r] = Append(@, "op")]
         /\ IF c.op \in Sensors
              THEN /\ ops' = [ops EXCEPT ![r][k] =
                        [st |-> "sent", awaited |-> aw, data |-> -1]]
                   /\ mq' = Append(rest, OpJob(r, k))
              ELSE /\ ops' = [ops EXCEPT ![r][k] = DoneOp]
                   /\ mq' = IF aw THEN Append(rest, TaskJob(r)) ELSE rest
  /\ UNCHANGED <<hasDevice, opened, cmdId, pc, got, tpc, listeners, inbox,
                 reqCalls, closeCalled>>
  /\ UNCHANGED direct

\* The task calls wait(sec), awaiting it (aw) or not: a timer is set, and
\* no frame is sent.
TaskWait(r, aw) ==
  /\ mq # <<>> /\ Head(mq) = TaskJob(r)
  /\ OpsCalled(Runs) < MaxOps
  /\ LET k == nOps[r] + 1
     IN  /\ nOps' = [nOps EXCEPT ![r] = k]
         /\ ops' = [ops EXCEPT ![r][k] =
              [st |-> "waiting", awaited |-> aw, data |-> -1]]
  /\ mq' = IF aw THEN Tail(mq) ELSE mq
  /\ UNCHANGED <<hasDevice, opened, cmdId, pc, got, tpc, listeners, outbox,
                 inbox, log, reqCalls, closeCalled>>
  /\ UNCHANGED direct

\* The timer of a wait(sec) fires: its promise resolves, and a task that
\* awaits it is resumed.
Timeout(r, k) ==
  /\ mq = <<>>
  /\ ops[r][k].st = "waiting"
  /\ ops' = [ops EXCEPT ![r][k] = DoneOp]
  /\ mq' = IF ops[r][k].awaited THEN <<TaskJob(r)>> ELSE <<>>
  /\ UNCHANGED <<hasDevice, opened, cmdId, pc, got, tpc, nOps, listeners,
                 outbox, inbox, log, reqCalls, closeCalled>>
  /\ UNCHANGED direct

\* The task returns: its promise is fulfilled and run() is resumed.
TaskReturn(r) ==
  /\ mq # <<>> /\ Head(mq) = TaskJob(r)
  /\ tpc' = [tpc EXCEPT ![r] = "returned"]
  /\ mq' = Append(Tail(mq), RunJob(r))
  /\ log' = [log EXCEPT ![r] = Append(@, "ret")]
  /\ UNCHANGED <<hasDevice, opened, cmdId, pc, got, nOps, ops, listeners,
                 outbox, inbox, reqCalls, closeCalled>>
  /\ UNCHANGED direct

\* The task throws: its promise is rejected and run() is resumed.
TaskThrow(r) ==
  /\ mq # <<>> /\ Head(mq) = TaskJob(r)
  /\ tpc' = [tpc EXCEPT ![r] = "threw"]
  /\ mq' = Append(Tail(mq), RunJob(r))
  /\ log' = [log EXCEPT ![r] = Append(@, "throw")]
  /\ UNCHANGED <<hasDevice, opened, cmdId, pc, got, nOps, ops, listeners,
                 outbox, inbox, reqCalls, closeCalled>>
  /\ UNCHANGED direct

\* ----------------------------------------------------------- sensor reads
\* A sensor read resumes after `await send(cmd, [])`: await recv().
OpRecv(r, k) ==
  /\ mq # <<>> /\ Head(mq) = OpJob(r, k)
  /\ ops[r][k].st = "sent"
  /\ recv(OpJob(r, k))
  /\ ops' = [ops EXCEPT ![r][k].st = "listening"]
  /\ mq' = Tail(mq)
  /\ UNCHANGED <<hasDevice, opened, cmdId, pc, got, tpc, nOps, outbox, inbox,
                 log, reqCalls, closeCalled>>
  /\ UNCHANGED direct

\* A sensor read resumes with the report and returns its reading; a task
\* that awaits it is resumed.
OpReturn(r, k) ==
  /\ mq # <<>> /\ Head(mq) = OpJob(r, k)
  /\ ops[r][k].st = "resolved"
  /\ ops' = [ops EXCEPT ![r][k] = DoneOp]
  /\ mq' = IF ops[r][k].awaited
             THEN Append(Tail(mq), TaskJob(r))
             ELSE Tail(mq)
  /\ UNCHANGED <<hasDevice, opened, cmdId, pc, got, tpc, nOps, listeners,
                 outbox, inbox, log, reqCalls, closeCalled>>
  /\ UNCHANGED direct

\* ------------------------------------------------------------------- host
\* The host completes the oldest sendReport.  The robot answers a query
\* frame with one report, whose byte 0 is the robot's to choose; the host
\* reads it if the device is still open.
Transmit(b) ==
  /\ outbox # <<>>
  /\ outbox' = Tail(outbox)
  /\ inbox' = IF Head(outbox).data[0] \in QueryCodes /\ opened
                THEN Append(inbox, [src |-> Head(outbox).src, b0 |-> b])
                ELSE inbox
  /\ UNCHANGED <<hasDevice, opened, cmdId, pc, got, tpc, nOps, ops, mq,
                 listeners, log, reqCalls, closeCalled>>
  /\ UNCHANGED direct

\* The host dispatches one 'inputreport' event: every registered listener is
\* called with it, in registration order, and removed ({once: true}); each
\* resolves its recv() promise, which queues the awaiting coroutine.  With no
\* listener registered the event has no receiver.
Deliver ==
  /\ mq = <<>>
  /\ inbox # <<>>
  /\ opened
  /\ LET rep == Head(inbox)
         hit == Range(listeners)
     IN  /\ inbox' = Tail(inbox)
         /\ listeners' = <<>>
         /\ mq' = listeners
         /\ got' = [r \in Runs |->
                      IF RunJob(r) \in hit THEN rep.b0 ELSE got[r]]
         /\ ops' = [r \in Runs |-> [k \in 1..MaxOps |->
                      IF OpJob(r, k) \in hit
                        THEN [ops[r][k] EXCEPT !.st = "resolved",
                                               !.data = rep.b0]
                        ELSE ops[r][k]]]
         /\ log' = [r \in Runs |->
                      IF RunJob(r) \in hit THEN Append(log[r], "rx")
                                           ELSE log[r]]
  /\ UNCHANGED <<hasDevice, opened, cmdId, pc, tpc, nOps, outbox, reqCalls,
                 closeCalled>>
  /\ UNCHANGED direct

Next ==
  \/ \E r \in Runs : StartRun(r)
  \/ \E r \in Runs, granted \in BOOLEAN : RequestDeviceDone(r, granted)
  \/ \E r \in Runs : RunAfterRequest(r)
  \/ \E r \in Runs : OpenDone(r)
  \/ \E r \in Runs : OpenFail(r)
  \/ \E r \in Runs : RunAfterOpen(r)
  \/ \E r \in Runs : RunRecv(r)
  \/ \E r \in Runs : RunTask(r)
  \/ \E r \in Runs : RunIdle(r)
  \/ \E r \in Runs : RunClose(r)
  \/ \E r \in Runs : CloseDone(r)
  \/ \E r \in Runs, c \in Calls, aw \in BOOLEAN : TaskCall(r, c, aw)
  \/ \E r \in Runs, aw \in BOOLEAN : TaskWait(r, aw)
  \/ \E r \in Runs, k \in 1..MaxOps : Timeout(r, k)
  \/ \E r \in Runs : TaskReturn(r)
  \/ \E r \in Runs : TaskThrow(r)
  \/ \E r \in Runs, k \in 1..MaxOps : OpRecv(r, k)
  \/ \E r \in Runs, k \in 1..MaxOps : OpReturn(r, k)
  \/ \E b \in ReportBytes : Transmit(b)
  \/ Deliver

Spec == Init /\ [][Next]_vars

\* --------------------------------------------------------- a single session
\* One run() call on the page, whose task awaits every operation it calls.
Session == 1

\* The jobs of the microtask queue: run() and the sensor reads resuming after
\* an await.
JobStep ==
  \/ RunAfterRequest(Session)
  \/ RunAfterOpen(Session)
  \/ RunRecv(Session)
  \/ RunTask(Session)
  \/ RunIdle(Session)
  \/ RunClose(Session)
  \/ \E k \in 1..MaxOps : OpRecv(Session, k)
  \/ \E k \in 1..MaxOps : OpReturn(Session, k)

\* The task, when it is its turn: it calls an operation and awaits it, or it
\* ends.
TaskStep ==
  \/ \E c \in Calls : TaskCall(Session, c, TRUE)
  \/ TaskWait(Session, TRUE)
  \/ TaskReturn(Session)
  \/ TaskThrow(Session)

\* The page calls run(); the browser settles requestDevice, open() and
\* close(), and fires the timers.
HostStep ==
  \/ StartRun(Session)
  \/ \E granted \in BOOLEAN : RequestDeviceDone(Session, granted)
  \/ OpenDone(Session)
  \/ OpenFail(Session)
  \/ CloseDone(Session)
  \/ \E k \in 1..MaxOps : Timeout(Session, k)

\* The transport completes a sendReport, the robot answering a query, and
\* the browser dispatches a report it has read.
DeviceStep ==
  \/ \E b \in ReportBytes : Transmit(b)
  \/ Deliver

NextSession == JobStep \/ TaskStep \/ HostStep \/ DeviceStep

\* The event loop runs every queued job, the task ends (it calls at most
\* MaxOps operations), the browser settles every request and fires every
\* timer, the transport completes every send, the robot answers every query
\* and every report read is dispatched.
SessionFairness ==
  /\ WF_vars(JobStep)
  /\ WF_vars(TaskStep)
  /\ WF_vars(HostStep)
  /\ WF_vars(DeviceStep)

SpecSession == Init /\ [][NextSession]_vars /\ SessionFairness


\* ----------------------------------------------------------- sensor decode
\* JavaScript values: a number is the fraction num/den, a boolean has num 1
\* (true) or 0 (false).
Num(n, d) == [type |-> "number", num |-> n, den |-> d]
Bool(b) == [type |-> "boolean", num |-> IF b THEN 1 ELSE 0, den |-> 1]
Undefined == [type |-> "undefined", num |-> 0, den |-> 1]
NaN == [type |-> "NaN", num |-> 0, den |-> 1]

\* A report is held as the sequence of its bytes: data[i] is the element at
\* i + 1, and undefined past the end.
Elem(data, i) == IF i < Len(data) THEN Num(data[i + 1], 1) ELSE Undefined
slice(data, a, b) ==
  SubSeq(data, a + 1, IF b < Len(data) THEN b ELSE Len(data))

\* A value stored into an element of a Uint8Array: converted to a number,
\* truncated towards zero, taken modulo 256; true is 1, false 0, NaN 0.
\* map() of a Uint8Array stores the callback's results into a new Uint8Array
\* of the same length.
Trunc(n, d) == IF n >= 0 THEN n \div d ELSE -((-n) \div d)
Uint8Of(v) ==
  IF v.type \in {"undefined", "NaN"} THEN 0 ELSE ToUint8(Trunc(v.num, v.den))

\* A Uint8Array as the caller sees it: its elements are numbers.
ArrayValue(arr) == [i \in 1..Len(arr) |-> Num(arr[i], 1)]

\* An operand of &: undefined is 0.
Int32Of(v) == IF v.type = "number" THEN Trunc(v.num, v.den) ELSE 0

\* get_obstacles: data.slice(0, 2).map(x => x === 1)
ObstaclesOf(data) ==
  LET part == slice(data, 0, 2)
  IN ArrayValue([i \in 1..Len(part) |-> Uint8Of(Bool(part[i] = 1))])

\* get_acceleration: a * 1.6 / 32.0 is a * 16 / 320.
convAccel(a) == Num((IF a > 31 THEN a - 64 ELSE a) * 16, 320)
AccelerationOf(data) ==
  LET part == slice(data, 0, 3)
      accel == [i \in 1..Len(part) |-> Uint8Of(convAccel(part[i]))]
  IN [x |-> Elem(accel, 0), y |-> Elem(accel, 1), z |-> Elem(accel, 2),
      tap |-> Bool(BitAnd(Int32Of(Elem(data, 4)), 32) # 0),
      shake |-> Bool(BitAnd(Int32Of(Elem(data, 4)), 128) # 0)]

\* get_temperature: (data[0] - 127) / 2.4 + 25, exactly, over the denominator
\* 24 (x / 2.4 is 10x / 24); undefined - 127 is NaN.
TemperatureOffset(data) ==
  IF Len(data) = 0 THEN NaN ELSE Num((data[1] - 128) * 10 + 25 * 24, 24)
TemperatureOf(data) ==
  IF Len(data) = 0 THEN NaN ELSE Num((data[1] - 127) * 10 + 25 * 24, 24)

\* get_light: data.slice(0, 2)
LightOf(data) == ArrayValue(slice(data, 0, 2))

Decode(fn, data) ==
  CASE fn = "get_obstacles" -> ObstaclesOf(data)
    [] fn = "get_acceleration" -> AccelerationOf(data)
    [] fn = "get_temperature" -> TemperatureOf(data)
    [] fn = "get_light" -> LightOf(data)

\* ----------------------------------------------------------- direct calls
\* The library's functions called one at a time on an open device, for the
\* claims about what a single call does with its arguments.
MaxMsgLen == 8        \* longest parameter list passed to send()

CmdIds == {"z", "M", "B", "O", "X", "I", "A", "T", "L", "R"}
SendBytes == {0, 128, 255}
ArgValues == {-1, 0, 1, 255, 256}
Msgs == UNION {[1..n -> SendBytes] : n \in 0..MaxMsgLen}
Caller == <<"direct", 0, 0>>

\* Arguments of buzz(): durations in milliseconds and frequencies in hertz.
DurationsMs == {0, 1, 255, 256, 1000, 65535, 65536}
Frequencies == {0, 255, 256, 440, 65535}

\* Reports the robot can answer a query with: up to MaxReportLen bytes, the
\* bytes a decoder reads (data[0] to data[4]) drawn from ByteSamples, the
\* bytes after them 0.
MaxReportLen == 8
DecodedLen == 5
ByteSamples == {0, 1, 40, 127, 160}
Reports ==
  {[i \in 1..n |-> IF i <= Len(p) THEN p[i] ELSE 0] :
     p \in [1..DecodedLen -> ByteSamples], n \in 0..MaxReportLen}

\* Clock steps of one millisecond the model takes besides the step to the
\* time a timer is due.
MaxTicks == 2

InitDirect ==
  /\ hasDevice = TRUE
  /\ opened = TRUE
  /\ cmdId = -1
  /\ pc = [r \in Runs |-> "idle"]
  /\ got = [r \in Runs |-> -1]
  /\ tpc = [r \in Runs |-> "none"]
  /\ nOps = [r \in Runs |-> 0]
  /\ ops = [r \in Runs |-> [k \in 1..MaxOps |-> FreeOp]]
  /\ mq = <<>>
  /\ listeners = <<>>
  /\ outbox = <<>>
  /\ inbox = <<>>
  /\ log = [r \in Runs |-> <<>>]
  /\ reqCalls = 0
  /\ closeCalled = FALSE
  /\ call = [fn |-> "none"]
  /\ ret = [st |-> "none"]
  /\ now = 0
  /\ timer = -1

\* send(cmd, msg)
CallSend(cmd, msg) ==
  /\ call.fn = "none"
  /\ call' = [fn |-> "send", cmd |-> cmd, msg |-> msg]
  /\ outbox' = sendReport(Frame(cmd, msg), Caller)
  /\ UNCHANGED <<hasDevice, opened, cmdId, pc, got, tpc, nOps, ops, mq,
                 listeners, inbox, log, reqCalls, closeCalled, ret, now,
                 timer>>

\* wheels(left, right)
CallWheels(left, right) ==
  /\ call.fn = "none"
  /\ call' = [fn |-> "wheels", args |-> <<left, right>>]
  /\ outbox' = sendReport(wheels(left, right), Caller)
  /\ mq' = <<Caller>>
  /\ UNCHANGED <<hasDevice, opened, cmdId, pc, got, tpc, nOps, ops, listeners,
                 inbox, log, reqCalls, closeCalled, ret, now, timer>>

\* led(r, g, b)
CallLed(r, g, b) ==
  /\ call.fn = "none"
  /\ call' = [fn |-> "led", args |-> <<r, g, b>>]
  /\ outbox' = sendReport(led(r, g, b), Caller)
  /\ mq' = <<Caller>>
  /\ UNCHANGED <<hasDevice, opened, cmdId, pc, got, tpc, nOps, ops, listeners,
                 inbox, log, reqCalls, closeCalled, ret, now, timer>>

\* halt()
CallHalt ==
  /\ call.fn = "none"
  /\ call' = [fn |-> "halt", args |-> <<>>]
  /\ outbox' = sendReport(halt, Caller)
  /\ mq' = <<Caller>>
  /\ UNCHANGED <<hasDevice, opened, cmdId, pc, got, tpc, nOps, ops, listeners,
                 inbox, log, reqCalls, closeCalled, ret, now, timer>>

\* wheels(), led() or halt() resumes after `await send(...)` and returns.
ActuatorReturn ==
  /\ mq # <<>> /\ Head(mq) = Caller
  /\ call.fn \in Actuators
  /\ mq' = Tail(mq)
  /\ ret' = [st |-> "returned", value |-> Undefined]
  /\ UNCHANGED <<hasDevice, opened, cmdId, pc, got, tpc, nOps, ops, listeners,
                 outbox, inbox, log, reqCalls, closeCalled, call, now, timer>>

\* buzz(sec, freq) with sec * 1000 = ms: the frame is handed over, the call
\* is suspended at `await send(...)`.
CallBuzz(ms, freq) ==
  /\ call.fn = "none"
  /\ call' = [fn |-> "buzz", args |-> <<ms, freq>>, at |-> now]
  /\ outbox' = sendReport(buzz(ms, freq), Caller)
  /\ mq' = <<Caller>>
  /\ UNCHANGED <<hasDevice, opened, cmdId, pc, got, tpc, nOps, ops, listeners,
                 inbox, log, reqCalls, closeCalled, ret, now, timer>>

\* buzz() resumes and calls wait(sec): setTimeout(res, sec * 1000).
BuzzWait ==
  /\ mq # <<>> /\ Head(mq) = Caller
  /\ call.fn = "buzz"
  /\ timer = -1
  /\ mq' = Tail(mq)
  /\ timer' = now + call.args[1]
  /\ UNCHANGED <<hasDevice, opened, cmdId, pc, got, tpc, nOps, ops, listeners,
                 outbox, inbox, log, reqCalls, closeCalled, call, ret, now>>

\* Time passes while buzz() is suspended: by a millisecond, or up to the
\* time the timer is due.
Tick ==
  /\ call.fn = "buzz" /\ ret.st = "none"
  /\ \/ now < call.at + MaxTicks /\ now' = now + 1
     \/ timer > now /\ now' = timer
  /\ UNCHANGED <<hasDevice, opened, cmdId, pc, got, tpc, nOps, ops, mq,
                 listeners, outbox, inbox, log, reqCalls, closeCalled, call,
                 ret, timer>>

\* The timer fires, not before it is due, and buzz() returns.
BuzzReturn ==
  /\ mq = <<>>
  /\ call.fn = "buzz" /\ ret.st = "none"
  /\ timer >= 0 /\ now >= timer
  /\ ret' = [st |-> "returned", value |-> Undefined]
  /\ UNCHANGED <<hasDevice, opened, cmdId, pc, got, tpc, nOps, ops, mq,
                 listeners, outbox, inbox, log, reqCalls, closeCalled, call,
                 now, timer>>

\* get_obstacles(), get_acceleration(), get_temperature() or get_light(): the
\* query frame is handed over, the call is suspended at `await send(...)`.
CallGet(fn) ==
  /\ call.fn = "none"
  /\ call' = [fn |-> fn, data |-> <<>>]
  /\ outbox' = sendReport(CallFrame([op |-> fn]), Caller)
  /\ mq' = <<Caller>>
  /\ UNCHANGED <<hasDevice, opened, cmdId, pc, got, tpc, nOps, ops, listeners,
                 inbox, log, reqCalls, closeCalled, ret, now, timer>>

\* The sensor read resumes and calls recv().
GetRecv ==
  /\ mq # <<>> /\ Head(mq) = Caller
  /\ call.fn \in Sensors
  /\ mq' = Tail(mq)
  /\ recv(Caller)
  /\ UNCHANGED <<hasDevice, opened, cmdId, pc, got, tpc, nOps, ops, outbox,
                 inbox, log, reqCalls, closeCalled, call, ret, now, timer>>

\* The robot has taken the query frame and answers with the report data: the
\* listener resolves recv() with its bytes and the read returns what it
\* decodes from them.
GetReturn(data) ==
  /\ mq = <<>>
  /\ listeners = <<Caller>>
  /\ outbox # <<>>
  /\ outbox' = Tail(outbox)
  /\ listeners' = <<>>
  /\ call' = [call EXCEPT !.data = data]
  /\ ret' = [st |-> "returned", value |-> Decode(call.fn, data)]
  /\ UNCHANGED <<hasDevice, opened, cmdId, pc, got, tpc, nOps, ops, mq, inbox,
                 log, reqCalls, closeCalled, now, timer>>

\* One call per behaviour: nothing is called once a call has been made.
NextDirect ==
  \/ call.fn = "none" /\ \E cmd \in CmdIds, msg \in Msgs : CallSend(cmd, msg)
  \/ call.fn = "none" /\ \E left, right \in ArgValues : CallWheels(left, right)
  \/ call.fn = "none" /\ \E r, g, b \in ArgValues : CallLed(r, g, b)
  \/ CallHalt
  \/ ActuatorReturn
  \/ call.fn = "none" /\ \E ms \in DurationsMs, freq \in Frequencies :
                           CallBuzz(ms, freq)
  \/ BuzzWait
  \/ Tick
  \/ BuzzReturn
  \/ call.fn = "none" /\ \E fn \in Sensors : CallGet(fn)
  \/ GetRecv
  \/ listeners = <<Caller>> /\ \E data \in Reports : GetReturn(data)

SpecDirect == InitDirect /\ [][NextDirect]_vars

\* ------------------------------------------------------------- properties
Count(q, e) == Cardinality({i \in DOMAIN q : q[i] = e})
Last(q) == q[Len(q)]
Settled(r) == pc[r] \in {"done", "rejected"}

\* C1: whatever the task's outcome (it returns or it throws), a run() that
\* has ended has called close() exactly once, after exactly one send of the
\* idle frame 'R'.
C1_TeardownOnEveryOutcome ==
  \A r \in Runs :
    (Settled(r) /\ tpc[r] \in {"returned", "threw"}) =>
      /\ Count(log[r], "close") = 1
      /\ Count(log[r], "R") = 1
      /\ \E i, j \in DOMAIN log[r] :
           i < j /\ log[r][i] = "R" /\ log[r][j] = "close"

\* C3: at most one recv() is pending: at most one 'inputreport' listener is
\* registered at a time.
C3_OnePendingRecv == Len(listeners) <= 1

\* The steps of a run() in the order the session takes them: what may follow
\* what in its history.
Follows(a, b) ==
  \/ a = "open" /\ b = "z"
  \/ a = "z" /\ b = "rx"
  \/ a = "rx" /\ b = "task"
  \/ a \in {"task", "op"} /\ b \in {"op", "ret", "throw"}
  \/ a = "ret" /\ b = "R"
  \/ a = "R" /\ b = "close"

\* The history of a run() whose task returned and that closed the device,
\* leaving out whether it opened the device itself and the frames of the
\* task's own operations.
SessionOrder == <<"z", "rx", "task", "ret", "R", "close">>
Core(q) == SelectSeq(q, LAMBDA e : e \notin {"open", "op"})

\* C4: a run() goes through open, identify frame 'z' first, one report
\* received and its byte 0 recorded as the command id, task, idle frame 'R'
\* last, close, in this order and no other; the task is never invoked before
\* the handshake response, and is invoked whatever the response byte is.
C4_SessionOrder ==
  \A r \in Runs :
    /\ log[r] # <<>> => log[r][1] \in {"open", "z"}
    /\ \A i \in 2..Len(log[r]) : Follows(log[r][i - 1], log[r][i])
    /\ pc[r] = "hsSent" => opened
    /\ tpc[r] # "none" => (Count(log[r], "rx") = 1 /\ got[r] \in ReportBytes)
    /\ pc[r] \in {"task", "idleSent", "closing", "done"} =>
         (tpc[r] # "none" /\ cmdId \in {got[o] : o \in Runs})
    /\ pc[r] = "done" => Core(log[r]) = SessionOrder

\* C4 witness: a run() went through the whole session, its task called an
\* operation, and the handshake response byte it recorded is not zero.
C4_Witness ==
  \E r \in Runs :
    /\ pc[r] = "done" /\ Count(log[r], "op") > 0
    /\ got[r] = MaxReportByte /\ cmdId = MaxReportByte

\* C5: every report the host dispatches has a receiver: no 'inputreport'
\* event is dispatched while no listener is registered.
C5_NoReportDropped == [][Deliver => listeners # <<>>]_vars

\* C6: a report resolves only the receiver of the operation whose query it
\* answers, and no report resolves two receivers.
C6_ResponseMatchesRequest ==
  [][Deliver => (/\ Len(listeners) <= 1
                 /\ \A j \in Range(listeners) : j = Head(inbox).src)]_vars

\* C7: requestDevice is called at most once for the page, and open() is never
\* called on a handle that is open or being opened.
C7_HandleReused ==
  /\ reqCalls <= 1
  /\ Cardinality({r \in Runs : pc[r] = "opening"}) <= 1

\* A step that invokes sendReport (a frame of the handshake, of an operation
\* or of the teardown) or registers an 'inputreport' listener.
IoStep ==
  \/ \E r \in Runs :
       /\ Len(log'[r]) > Len(log[r])
       /\ Last(log'[r]) \in {"z", "op", "R"}
  \/ Len(listeners') > Len(listeners)

\* C8: sendReport is never invoked and no listener is registered after close()
\* has been called on the device and before it is opened again.
C8_IoOnlyWhileOpen == [][IoStep => ~closeCalled]_vars

\* C9: closing an already-closed device makes no transport-level close call:
\* run() calls device.close() only on an open device.
C9_CloseIdempotent ==
  [][\A r \in Runs : (pc[r] = "idleSent" /\ pc'[r] = "closing") => opened]_vars


\* The frame a direct call handed to the transport, as the bytes 0..7 in
\* order.
SentBytes == [i \in 1..FrameLen |-> outbox[1].data[i - 1]]

\* C2: for a parameter list of 0 to 7 bytes, send() hands the transport one
\* frame of exactly 8 bytes: byte 0 is the character code of the identifier,
\* bytes 1..len(params) are the parameters in order, every other byte is 0;
\* ('M', [0,255,0,128]) gives [0x4D,0,255,0,128,0,0,0].
C2_FrameLayout ==
  (/\ call.fn = "send"
   /\ Len(call.msg) <= FrameLen - 1
   /\ \A i \in DOMAIN call.msg : call.msg[i] \in 0..255) =>
    /\ Len(outbox) = 1
    /\ DOMAIN outbox[1].data = 0..(FrameLen - 1)
    /\ outbox[1].data[0] = CharCode(call.cmd)
    /\ \A i \in 1..Len(call.msg) : outbox[1].data[i] = call.msg[i]
    /\ \A i \in (Len(call.msg) + 1)..(FrameLen - 1) : outbox[1].data[i] = 0
    /\ (call.cmd = "M" /\ call.msg = <<0, 255, 0, 128>>) =>
         SentBytes = <<77, 0, 255, 0, 128, 0, 0, 0>>

\* C2 witness: send('M', [0,255,0,128]) has handed its frame over.
C2_Witness ==
  /\ call = [fn |-> "send", cmd |-> "M", msg |-> <<0, 255, 0, 128>>]
  /\ outbox # <<>>

\* C10: wheels() and led() with an argument outside 0..255 hand no frame to
\* the transport.
C10_OutOfRangeRejected ==
  (/\ call.fn \in {"wheels", "led"}
   /\ \E i \in DOMAIN call.args : call.args[i] \notin 0..255) =>
    outbox = <<>>

\* A run() that failed while connecting: no device was granted, or open() was
\* refused.
ConnectFailed(r) == pc[r] = "rejected" /\ tpc[r] = "none"

\* C11: when requestDevice yields no device or open() is refused, the caller
\* of run() gets the failure, open() is not called again, no frame is sent
\* and the task is not invoked.
C11_ConnectFailureFatal ==
  \A r \in Runs :
    ConnectFailed(r) =>
      /\ runResult(r) = "rejected"
      /\ log[r] = <<>>
      /\ nOps[r] = 0

\* C11, the part that does not depend on what the caller gets: a run() that
\* failed while connecting sent no frame and did not invoke its task, and it
\* takes no further step (open() is not called again).
C11_NoFrameNoTask ==
  /\ \A r \in Runs : ConnectFailed(r) => (log[r] = <<>> /\ nOps[r] = 0)
  /\ [][\A r \in Runs : ConnectFailed(r) =>
          (pc'[r] = pc[r] /\ log'[r] = log[r] /\ tpc'[r] = tpc[r])]_vars

\* A run() failed while connecting after a device had been granted: open()
\* was refused.
C11_Witness == \E r \in Runs : ConnectFailed(r) /\ hasDevice

\* Every argument of the direct call is a byte.
InRange(args) == \A i \in DOMAIN args : args[i] \in 0..255

\* C12: wheels(left, right), led(r, g, b) and halt() with arguments in 0..255
\* each hand the transport exactly one frame, ['M',0,left,0,right,0,0,0],
\* ['O',r,g,b,0,0,0,0] and ['X',0,0,0,0,0,0,0]; they register no receiver and
\* consume no report: the call returns as soon as it resumes after the send.
C12_ActuatorFrames ==
  (call.fn \in Actuators /\ InRange(call.args)) =>
    /\ Len(outbox) = 1
    /\ SentBytes =
         CASE call.fn = "wheels" ->
                <<77, 0, call.args[1], 0, call.args[2], 0, 0, 0>>
           [] call.fn = "led" ->
                <<79, call.args[1], call.args[2], call.args[3], 0, 0, 0, 0>>
           [] call.fn = "halt" -> <<88, 0, 0, 0, 0, 0, 0, 0>>
    /\ listeners = <<>>
    /\ inbox = <<>>
    /\ mq = <<>> => ret.st = "returned"

\* C12 witness: wheels(1, 255) has returned; its frame is with the transport
\* and no report has come.
C12_Witness ==
  /\ call.fn = "wheels" /\ call.args = <<1, 255>>
  /\ ret.st = "returned"
  /\ Len(outbox) = 1

Signed6(r) == IF r > 31 THEN r - 64 ELSE r

\* C14: get_acceleration() returns for each axis byte r the number
\* (r - 64) * 1.6 / 32 if r > 31 and r * 1.6 / 32 otherwise, that is
\* Signed6(r) / 20: negative and fractional values reach the caller.
C14_Acceleration ==
  (call.fn = "get_acceleration" /\ ret.st = "returned"
     /\ Len(call.data) >= DecodedLen) =>
    \A i \in 1..3 :
      LET v == <<ret.value.x, ret.value.y, ret.value.z>>[i]
      IN v.type = "number" /\ 20 * v.num = Signed6(call.data[i]) * v.den

\* C15: get_obstacles() returns a pair of booleans: true for a byte equal to
\* 1 and false for any other byte, from bytes 0 and 1 of the report.
C15_Obstacles ==
  (call.fn = "get_obstacles" /\ ret.st = "returned"
     /\ Len(call.data) >= 2) =>
    ret.value = <<Bool(call.data[1] = 1), Bool(call.data[2] = 1)>>

\* The temperature for a raw byte b is less than the one for b + 1.
Less(v, w) == v.num * w.den < w.num * v.den

\* C16: get_temperature() returns T = (b - 127) / 2.4 + 25 for byte 0 = b of
\* the report, that is 12 * T = 5 * b - 335; 127 gives 25; T is strictly
\* increasing in b.
C16_Temperature ==
  (call.fn = "get_temperature" /\ ret.st = "returned"
     /\ Len(call.data) >= 1) =>
    /\ ret.value.type = "number"
    /\ 12 * ret.value.num = (5 * call.data[1] - 335) * ret.value.den
    /\ call.data[1] = 127 => ret.value.num = 25 * ret.value.den
    /\ \A b \in 0..255 :
         /\ 12 * TemperatureOf(<<b>>).num
              = (5 * b - 335) * TemperatureOf(<<b>>).den
         /\ b < 255 => Less(TemperatureOf(<<b>>), TemperatureOf(<<b + 1>>))

\* C16 witness: get_temperature() has returned for a report whose byte 0 is
\* 127.
C16_Witness ==
  /\ call.fn = "get_temperature" /\ ret.st = "returned"
  /\ Len(call.data) = MaxReportLen /\ call.data[1] = 127

\* The bytes each sensor read takes from the report.
Needed(fn) ==
  CASE fn \in {"get_obstacles", "get_light"} -> 2
    [] fn = "get_acceleration" -> 5
    [] fn = "get_temperature" -> 1

\* C18: a sensor read whose report is shorter than the bytes it decodes
\* fails instead of returning a reading.
C18_ShortReportRejected ==
  (call.fn \in Sensors /\ ret.st # "none"
     /\ Len(call.data) < Needed(call.fn)) =>
    ret.st = "threw"

\* C19: send() with more than 7 parameters hands no frame to the transport.
C19_LongParamsRejected ==
  (call.fn = "send" /\ Len(call.msg) > FrameLen - 1) => outbox = <<>>

\* A step that starts a transport operation: a sendReport (a frame joins the
\* ones whose send is not complete) or the session's close().
TransportCall ==
  \/ Len(outbox') > Len(outbox)
  \/ pc[Session] = "idleSent" /\ pc'[Session] = "closing"

\* C17: in a session whose task awaits every operation, no sendReport and
\* no close() is started while an earlier sendReport is incomplete; close()
\* is not called while the idle frame 'R' is being sent.
C17_SendCompletesFirst == [][TransportCall => outbox = <<>>]_vars

\* The session has a granted, open device and has sent its handshake.
Connected == pc[Session] = "hsSent"

\* The session is over: the device is closed and its handle is kept.
Closed == pc[Session] = "done" /\ ~opened /\ hasDevice

\* C20: a session whose device is granted and opens, whose queries are all
\* answered and whose task awaits its operations and ends, sends the idle
\* frame and closes the device, leaving it closed and the handle cached: once
\* it has sent its handshake, it has no step left to take only when it has
\* closed.
C20_SessionCloses ==
  (Count(log[Session], "z") = 1 /\ ~ENABLED NextSession) => Closed

\* C20 as a liveness property: a connected session is eventually closed.
C20_EventuallyCloses == Connected ~> Closed

\* C20 for a task that ends by returning: a connected session is eventually
\* closed unless its task throws.
C20_ReturningTaskCloses == <>(tpc[Session] = "threw") \/ (Connected ~> Closed)

\* C20, no timeout: a run() or a sensor read suspended in recv() is resumed
\* by the dispatch of a report and by no other step.
C20_NoTimeout ==
  [][(\E j \in Range(listeners) :
        j \notin Range(listeners') \/ j \in Range(mq')) => Deliver]_vars

====
